---------------------------- MODULE Spec2Model ----------------------------
(***************************************************************************)
(* A model of accelerInt's Radau-IIA integrator (src/src/radau2a.c), of    *)
(* the error check of the solver skeleton (src/generic/solver.hpp) and of  *)
(* the batch dispatch of the OpenCL driver (src/generic/opencl/solver.hpp).*)
(*                                                                         *)
(* Arithmetic.  Times and step sizes are fixed-point numbers: integers in  *)
(* units of one tick.  A product with a real factor is rounded down to a   *)
(* whole tick, so a step size can shrink to 0 (the model's underflow).     *)
(* Real factors are exact rationals <<numerator, denominator>>.  The       *)
(* machine epsilon Roundoff is 1/RoundoffDen of a tick.  The numbers the   *)
(* user hooks and LAPACK produce (LU info, Newton increments, the error    *)
(* estimate, the stage increment Z3) are inputs of each loop iteration,    *)
(* drawn from small sets.                                                  *)
(***************************************************************************)
EXTENDS Integers, Sequences, FiniteSets, TLC

VARIABLES
    \* ---- integrate (src/src/radau2a.c:424-704), one IVP
    pc,            \* "loop" | "returned" | "exited" | "checked"
    code,          \* the error code of the call
    t_end,         \* argument t_end
    t, H, Hold, Hacc, ErrOldRt,
    Reject, FirstStep, SkipJac, SkipLU,
    Nconsecutive, Nsteps,
    NewtonRate,
    y, yNaN,       \* the state vector; yNaN: y[0] holds the abort marker logf(-1)
    A,             \* the time at which the stored Jacobian was evaluated (-1: never)
    lu,            \* what the stored E1/E2 factorization was computed from
    F0at,          \* the time at which F0 was evaluated (-1: never)
    y0, sc,        \* the remembered previous state and the error weights
    CONT,          \* the start time of the step CONT interpolates (-1: none)
    \* ---- history of the last loop iteration (not program state)
    last,
    failRun,       \* failed RK_Decomp calls since the last successful one
    ident,         \* nothing so far tells the hooks from f = 0, J = 0
    \* ---- Integrator::intDriver (src/generic/opencl/solver.hpp:912-1055)
    mode,          \* "static" | "queue": _options.use_queue()
    NUM,           \* the number of IVPs
    numThreads,    \* the global work size
    problems,      \* the kernel's argument NUM
    queue,         \* the int in buffer_queue
    wpc,           \* per worker: "start" | "fetch" | "work" | "done"
    widx,          \* per worker: the index it works on
    phi,           \* buffer_phi, one entry per IVP
    claims,        \* per IVP: the workers that claimed it
    runs,          \* per IVP: how many times it was integrated
    counters,      \* buffer_counters, one entry per IVP
    hpc,           \* the host: "launched" | "waited" | "read" (and returned)
    hostPhi,       \* the host's array phi
    nst, nit,      \* the host's totals nst_ and nit_
    live,          \* the kernel and the device buffers created and not released
    \* ---- two runs of RK_ErrorNorm on one input (radau2a.c:349-375)
    normIn, run1, run2,
    \* ---- SolverOptions, cl_init and the scalar-time intDriver
    \*      (src/generic/opencl/solver.hpp:93-109, 555-573, 822-830)
    opt,           \* the arguments of the SolverOptions constructor
    opc,           \* "args" | "built" | "ready" | "driven" | "halted"
    cl,            \* cl_data: blockSize, numBlocks, vectorSize
    drv,           \* the start and end times the array overload reads
    \* ---- the log of IntegatorBase (src/generic/opencl/solver.hpp:733-758)
    logNUM,        \* the number of IVPs of the integrator's batches
    logv,          \* _log: a sequence of arrays of 1 + NUM * neq doubles
    calls,         \* the arguments of the log() calls since the last clean()
    cleaned,       \* clean() has been called
    \* ---- the Newton loop of one attempt, pass by pass (radau2a.c:511-573)
    newton,
    \* ---- one call of RK_Interpolate (radau2a.c:237-248)
    interp         \* its arguments, and Z1, Z2, Z3 once it has returned

intVars == <<pc, code, t_end, t, H, Hold, Hacc, ErrOldRt, Reject, FirstStep,
             SkipJac, SkipLU, Nconsecutive, Nsteps, NewtonRate, y, yNaN, A, lu,
             F0at, y0, sc, CONT, last, failRun, ident>>

dispVars == <<mode, NUM, numThreads, problems, queue, wpc, widx, phi, claims,
              runs, counters, hpc, hostPhi, nst, nit, live>>

normVars == <<normIn, run1, run2>>

optVars == <<opt, opc, cl, drv>>

logVars == <<logNUM, logv, calls, cleaned>>

unitVars == <<newton, interp>>

vars == <<intVars, dispVars, normVars, optVars, logVars, unitVars>>

---------------------------------------------------------------------------
(* Bounds of the model *)

\* problem dimension (the compile-time NN)
NN == 2
\* t_start ranges over 0..MaxTStart, t_end over 1..MaxTEnd (ticks)
MaxTStart == 1
MaxTEnd == 5
\* the initial step size 5e-7 in ticks
HInit == 4
\* Max_no_steps, 200000 in the source, scaled down so that it is reached
Max_no_steps == 4
\* Roundoff = 1 / RoundoffDen tick
RoundoffDen == 1000

(* Program constants *)
NewtonMaxit == 8
MaxConsecutive == 5

FacMin == <<1, 5>>
FacMax == <<8, 1>>
FacSafe == <<9, 10>>
FacRej == <<1, 10>>
ThetaMin == <<1, 1000>>
NewtonTol == <<3, 100>>
Qmin == <<1, 1>>
Qmax == <<6, 5>>
Roundoff == <<1, RoundoffDen>>
\* EPS where it bounds a dimensionless quantity (a norm, a convergence rate)
EPS == <<1, 100000>>
\* rkELO = 4: the error estimate enters the step controller as Err^(-1/rkELO),
\* so the model draws the fourth root of Err and Err itself is its 4th power
rkELO == 4

---------------------------------------------------------------------------
(* Rational arithmetic: <<numerator, denominator>>, denominator > 0 *)

Abs(x) == IF x < 0 THEN -x ELSE x
Min(a, b) == IF b < a THEN b ELSE a
Max(a, b) == IF a < b THEN b ELSE a

RECURSIVE GCD(_, _)
GCD(a, b) == IF b = 0 THEN a ELSE GCD(b, a % b)

Norm(r) == LET g == GCD(Abs(r[1]), r[2]) IN <<r[1] \div g, r[2] \div g>>

One == <<1, 1>>
RLess(a, b) == a[1] * b[2] < b[1] * a[2]
RLeq(a, b) == a[1] * b[2] <= b[1] * a[2]
RMin(a, b) == IF RLess(b, a) THEN b ELSE a
RMax(a, b) == IF RLess(a, b) THEN b ELSE a
RMul(a, b) == Norm(<<a[1] * b[1], a[2] * b[2]>>)
RDiv(a, b) == Norm(<<a[1] * b[2], a[2] * b[1]>>)
RSub(a, b) == Norm(<<a[1] * b[2] - b[1] * a[2], a[2] * b[2]>>)

\* floor(f * h): a fixed-point time h times a real factor f >= 0
Mul(f, h) == (f[1] * h) \div f[2]

\* x * th^m for 0 <= th < 1, or <<0, 1>> as soon as a partial product is
\* below the threshold c (the product can then only be smaller)
RECURSIVE PowCut(_, _, _, _)
PowCut(x, th, m, c) ==
    IF RLess(x, c) THEN <<0, 1>>
    ELSE IF m = 0 THEN x
    ELSE PowCut(RMul(x, th), th, m - 1, c)

RECURSIVE RPow(_, _)
RPow(x, m) == IF m = 0 THEN One ELSE RMul(x, RPow(x, m - 1))

Vec(v) == [i \in 1..NN |-> v]
VAdd(u, v) == [i \in 1..NN |-> u[i] + v[i]]

---------------------------------------------------------------------------
(* Inputs of one loop iteration: what the hooks and LAPACK computed *)

\* info of dgetrf_ / zgetrf_: 0, or the index of a zero pivot
Infos == {0, 1}
\* values of NewtonIncrement (weighted RMS norms of the Newton update)
IncSet == {<<1, 1>>, <<1, 10>>, <<1, 10000>>}
\* fourth roots of the error estimate Err: Err < 1 iff its root is < 1
ErrRoots == {<<1, 16>>, <<4, 5>>, <<2, 1>>}
\* values of the stage increment Z3 at the end of a converged Newton loop
ZSet == {Vec(0), [i \in 1..NN |-> IF i = 1 THEN 1 ELSE -1]}
\* the values pow() is rounded to
RateGrid == {<<1, 1000>>, <<1, 1>>, <<2, 1>>}
RootGrid == {<<1, 4>>, <<1, 2>>, <<3, 4>>, <<1, 1>>}
\* the values of NewtonIter at which the Newton loop is left
NewtonIters == {0, 1, 2, NewtonMaxit - 2}

---------------------------------------------------------------------------
(* The Newton loop of integrate, radau2a.c:511-566 *)

\* pow(fmax(NewtonRate, EPS), 0.8): x^0.8 lies between x and 1; any grid
\* value in that interval
Pow08Set(rate) ==
    LET x == RMax(rate, EPS)
    IN  IF RLeq(x, One)
        THEN {g \in RateGrid : RLeq(x, g) /\ RLeq(g, One)}
        ELSE {g \in RateGrid : RLeq(One, g) /\ RLeq(g, x)}

\* pow(Q, -1/m) for 1 <= Q <= 10 and m >= 2 (a break at NewtonIter <=
\* NewtonMaxit - 2): the greatest grid value x with x^m * Q <= 1
RootInv(Q, m) ==
    LET ok(x) == RLeq(RMul(RPow(x, m), Q), One)
    IN  CHOOSE x \in RootGrid :
            ok(x) /\ \A z \in RootGrid : ok(z) => RLeq(z, x)

\* line 513: the step reduction when Theta is too large
NewtonFac0One == One
NewtonFac0 == <<1, 2>>
\* the exponent of Theta is one too large
PredExpOneMore(k) == NewtonMaxit - k
\* line 539: the exponent of Theta in NewtonPredictedErr
PredExp(k) == NewtonMaxit - k - 1

\* One pass of the loop body at NewtonIter = k, with NewtonIncrement = NI,
\* NewtonIncrementOld = NIold and NewtonRate = rate on entry.  kind says how
\* the pass ends: "theta" and "predicted" are the two breaks, "done" is
\* convergence, "maxit" the abort at the last iteration, "next" another pass.
NewtonPass(k, NI, NIold, rate) ==
    LET Theta == IF k > 0 THEN RDiv(NI, NIold) ELSE ThetaMin
        tooLarge == k > 0 /\ ~RLess(Theta, <<99, 100>>)
        updated == k > 0 /\ ~tooLarge
        rate1 == IF updated THEN RDiv(Theta, RSub(One, Theta)) ELSE rate
        \* NewtonIncrement * Theta^(NewtonMaxit - k - 1), or 0 when the
        \* predicted error is below NewtonTol
        prod == IF updated /\ k < NewtonMaxit
                THEN PowCut(NI, Theta, PredExp(k),
                            RMul(NewtonTol, RSub(One, Theta)))
                ELSE <<0, 1>>
        predBreak == prod[1] # 0
        Qnewton == IF predBreak
                   THEN RMin(<<10, 1>>,
                             RDiv(RDiv(prod, RSub(One, Theta)), NewtonTol))
                   ELSE One
        Fac == IF predBreak
               THEN RMul(<<4, 5>>, RootInv(Qnewton, NewtonMaxit - k))
               ELSE NewtonFac0
        NewtonDone == RLeq(RMul(rate1, NI), NewtonTol)
    IN  [kind |-> IF tooLarge THEN "theta"
                  ELSE IF predBreak THEN "predicted"
                  ELSE IF NewtonDone THEN "done"
                  ELSE IF k = NewtonMaxit - 1 THEN "maxit"
                  ELSE "next",
         NewtonIter |-> k, Theta |-> Theta, NewtonRate |-> rate1, Fac |-> Fac]

\* the values NewtonRate can have after a pass k >= 1 that went on
PassRates ==
    {RDiv(RDiv(a, b), RSub(One, RDiv(a, b))) :
        <<a, b>> \in {p \in IncSet \X IncSet : RLess(RDiv(p[1], p[2]), <<99, 100>>)}}

\* How the Newton loop can end, given NewtonRate after line 518: the last
\* pass of the loop, over all its inputs.  (The passes before it went on.)
NewtonOutcomes[carried \in RateGrid] ==
    {o \in {NewtonPass(k, ni, IF k = 0 THEN ni ELSE nio,
                       IF k <= 1 THEN carried ELSE r) :
              k \in NewtonIters, ni \in IncSet, nio \in IncSet,
              r \in PassRates} :
        o.kind # "next"}

NewtonFails[carried \in RateGrid] ==
    {o \in NewtonOutcomes[carried] : o.kind # "done"}
NewtonDones[carried \in RateGrid] ==
    {o \in NewtonOutcomes[carried] : o.kind = "done"}

\* a rejection keeps the stale factorization
RejectFlagsKeepLU == [Reject |-> TRUE, SkipJac |-> TRUE, SkipLU |-> TRUE]
\* lines 484-486, 569-571 and 699-701: the flags every rejection sets
RejectFlags == [Reject |-> TRUE, SkipJac |-> TRUE, SkipLU |-> FALSE]

\* the increments of the pass-by-pass loop: 2, 1, 1/2, ..., 2/2^MaxHalvings,
\* and 3/8, which makes a contraction rate of 3/4 after 1/2
MaxHalvings == 7
RECURSIVE Pow2(_)
Pow2(i) == IF i = 0 THEN 1 ELSE 2 * Pow2(i - 1)
NewtonIncs == {Norm(<<2, Pow2(i)>>) : i \in 0..MaxHalvings} \cup {<<3, 8>>}

NewtonIdle == [pc |-> "idle", NewtonIter |-> 0, NewtonIncrement |-> <<0, 1>>,
               NewtonIncrementOld |-> <<0, 1>>, NewtonRate |-> One,
               Theta |-> <<0, 1>>, Fac |-> NewtonFac0, NewtonDone |-> FALSE,
               H |-> 0, H0 |-> 0, updates |-> 0,
               Reject |-> FALSE, SkipJac |-> FALSE, SkipLU |-> FALSE]

NewtonIdleSt == newton = NewtonIdle

\* lines 511-518: the locals before the first pass; NewtonRate is any value
\* line 518 can leave, H any step size of the attempt
NewtonInit ==
    \E rate \in RateGrid, h \in 1..HInit, rj, sj, sl \in BOOLEAN :
        newton = [NewtonIdle EXCEPT !.pc = "loop", !.NewtonRate = rate,
                                    !.H = h, !.H0 = h, !.Reject = rj,
                                    !.SkipJac = sj, !.SkipLU = sl]

\* lines 520-566: one pass of the for loop
NewtonIteration ==
    /\ UNCHANGED <<intVars, dispVars, normVars, optVars, logVars, interp>>
    /\ newton.pc = "loop"
    /\ newton.NewtonIter < NewtonMaxit
    /\ \E NI \in NewtonIncs :
        LET o == NewtonPass(newton.NewtonIter, NI, newton.NewtonIncrementOld,
                            newton.NewtonRate)
            went == o.kind \in {"done", "maxit", "next"}
        IN  newton' = [newton EXCEPT
                !.pc = IF o.kind = "next" THEN "loop"
                       ELSE IF o.kind = "maxit" THEN "abort" ELSE "break",
                !.NewtonIter = IF o.kind = "next" THEN @ + 1 ELSE @,
                !.NewtonIncrement = NI,
                !.NewtonIncrementOld = IF went THEN RMax(NI, Roundoff) ELSE @,
                !.NewtonRate = o.NewtonRate,
                !.Theta = o.Theta,
                !.Fac = o.Fac,
                !.NewtonDone = (o.kind = "done"),
                !.updates = IF went THEN @ + 1 ELSE @]

\* lines 567-573: after the loop
NewtonLoopEnd ==
    /\ UNCHANGED <<intVars, dispVars, normVars, optVars, logVars, interp>>
    /\ newton.pc = "break"
    /\ newton' = IF ~newton.NewtonDone
                 THEN [newton EXCEPT !.pc = "rejected",
                                     !.H = Mul(newton.Fac, newton.H),
                                     !.Reject = RejectFlags.Reject,
                                     !.SkipJac = RejectFlags.SkipJac,
                                     !.SkipLU = RejectFlags.SkipLU]
                 ELSE [newton EXCEPT !.pc = "converged"]

---------------------------------------------------------------------------
(* RK_Interpolate, radau2a.c:237-248, for one component i of the state *)

\* H and Hold range over 1..MaxInterpH (ticks)
MaxInterpH == 3
\* the values of CONT[i], CONT[NN + i] and CONT[NN + NN + i]
ContVals == {-1, 0, 1}

\* lines 73-77, cut to three digits
rkC == <<(<<31, 200>>), (<<129, 200>>), One>>

RAdd(a, b) == Norm(<<a[1] * b[2] + b[1] * a[2], a[2] * b[2]>>)
Int2R(n) == <<n, 1>>

\* lines 239-247: <<Z1[i], Z2[i], Z3[i]>>
RK_Interpolate(h, hold, cont) ==
    LET r == <<h, hold>>
        x1 == RAdd(One, RMul(rkC[1], r))
        x2 == RAdd(One, RMul(rkC[2], r))
        x3 == RAdd(One, RMul(rkC[3], r))
        c0 == Int2R(cont[1])
        c1 == Int2R(cont[2])
        c2 == Int2R(cont[3])
    IN  << RAdd(c0, RMul(x1, RAdd(c1, RMul(x1, c2)))),
           RAdd(c0, RMul(x2, RAdd(c1, RMul(x2, c2)))),
           RAdd(c0, RMul(x2, RAdd(c1, RMul(x3, c2)))) >>

InterpIdle == [pc |-> "idle", H |-> 1, Hold |-> 1, CONT |-> <<0, 0, 0>>,
               Z |-> <<(<<0, 1>>), (<<0, 1>>), (<<0, 1>>)>>]

IdleInterp == interp = InterpIdle

\* the arguments of a call: Hold is the size of an accepted step, not zero
InterpInit ==
    \E h, hold \in 1..MaxInterpH, cont \in ContVals \X ContVals \X ContVals :
        interp = [InterpIdle EXCEPT !.pc = "args", !.H = h, !.Hold = hold,
                                    !.CONT = cont]

\* the call
InterpCall ==
    /\ UNCHANGED <<intVars, dispVars, normVars, optVars, logVars, newton>>
    /\ interp.pc = "args"
    /\ interp' = [interp EXCEPT
                     !.pc = "done",
                     !.Z = RK_Interpolate(interp.H, interp.Hold, interp.CONT)]

IdleNewton == NewtonIdleSt /\ IdleInterp

---------------------------------------------------------------------------
(* integrate, radau2a.c:424-704 *)

TStarts == 0..MaxTStart
TEnds == 1..MaxTEnd
YInit == [i \in 1..NN |-> i]
\* the fourth root of 1e-2, the floor of ErrOld, cut to three digits
ErrFloorRt == <<316, 1000>>
\* pow(2.0, 1.25), cut to two digits
NewtonRateInit == <<238, 100>>

\* the tolerances ATOL and RTOL of the build
ATOL == <<1, 10>>
RTOL == <<1, 10>>
\* 1 / (ATOL + m * RTOL)
ScaleEntry(m) ==
    RDiv(One, Norm(<<ATOL[1] * RTOL[2] + m * RTOL[1] * ATOL[2],
                     ATOL[2] * RTOL[2]>>))
\* the weights follow the second vector alone
scaleOfLatter(a, b) == [i \in 1..NN |-> ScaleEntry(Abs(b[i]))]
\* scale, lines 38-43, for the vectors passed as y0 and y
scale(a, b) == [i \in 1..NN |-> ScaleEntry(Max(Abs(a[i]), Abs(b[i])))]
\* scale_init, lines 45-50
scale_init(a) == [i \in 1..NN |-> ScaleEntry(Abs(a[i]))]

NoAttempt == [kind |-> "none", t |-> 0, H |-> 0, y |-> YInit, Z3 |-> Vec(0),
              Hnew |-> 0, thetaOK |-> FALSE, dydt |-> FALSE, start |-> "none",
              NewtonIter |-> 0, Fac |-> <<0, 1>>, errRt |-> <<0, 1>>]

\* lines 425-464: the state of integrate before its loop
IntInit ==
    /\ pc = "loop"
    /\ code = "SUCCESS"
    /\ t_end \in TEnds
    /\ t \in {s \in TStarts : s < t_end}
    /\ H = HInit
    /\ Hold = 0
    /\ Hacc = 0
    /\ ErrOldRt = <<0, 1>>
    /\ Reject = FALSE
    /\ FirstStep = TRUE
    /\ SkipJac = FALSE
    /\ SkipLU = FALSE
    /\ Nconsecutive = 0
    /\ Nsteps = 0
    /\ NewtonRate = NewtonRateInit
    /\ y = YInit
    /\ yNaN = FALSE
    /\ A = -1
    /\ lu = [H |-> 0, A |-> -1, ok |-> FALSE]
    /\ F0at = -1
    /\ sc = scale_init(YInit)
    /\ y0 = YInit
    /\ CONT = -1
    /\ last = NoAttempt
    /\ failRun = 0
    /\ ident = TRUE

\* line 465: t + Roundoff < t_end
LoopCond == t * RoundoffDen + 1 < t_end * RoundoffDen

\* line 500: 0.1 * fabs(H) <= fabs(t) * Roundoff
HTooSmall == Abs(H) * RoundoffDen <= 10 * Abs(t)

\* RK_Decomp, lines 200-220: zgetrf_ is not reached when dgetrf_ fails
RK_Decomp(info1, info2) == IF info1 # 0 THEN info1 ELSE info2

\* line 483
LUFailH(h) == Mul(<<1, 2>>, h)

\* the count never leaves 0
NconsecutiveZero(info, n) == 0
\* the count keeps growing over successful factorizations
NconsecutiveKept(info, n) == IF info # 0 THEN n + 1 ELSE n
\* lines 475-476 and 490-492: Nconsecutive after RK_Decomp returned info
NconsecutiveAfter(info, n) == IF info # 0 THEN n + 1 ELSE 0

\* line 466: dydt(t, pr, y, F0) is called unless the last attempt was rejected
CallsDydt == ~Reject
\* F0 is never evaluated
F0Stale == F0at
\* lines 466-474: F0 and the Jacobian as the iteration finds or refreshes them
F0Now == IF CallsDydt THEN t ELSE F0at
JacNow == IF ~SkipLU /\ ~SkipJac THEN t ELSE A

\* line 465, while the loop condition fails: integrate returns
LoopExit ==
    /\ UNCHANGED <<dispVars, normVars, optVars, logVars, unitVars>>
    /\ UNCHANGED <<y0, sc, ident, CONT>>
    /\ pc = "loop"
    /\ ~LoopCond
    /\ pc' = "returned"
    /\ UNCHANGED <<code, t_end, t, H, Hold, Hacc, ErrOldRt, Reject, FirstStep,
                   SkipJac, SkipLU, Nconsecutive, Nsteps, NewtonRate, y, yNaN,
                   A, lu, F0at, last, failRun>>

\* lines 466-488: the factorization fails, not for the 5th time in a row
LUFail ==
    /\ UNCHANGED <<dispVars, normVars, optVars, logVars, unitVars>>
    /\ ident' = FALSE
    /\ UNCHANGED <<y0, sc, CONT>>
    /\ pc = "loop"
    /\ LoopCond
    /\ ~SkipLU
    /\ \E info1, info2 \in Infos :
        /\ RK_Decomp(info1, info2) # 0
        /\ Nconsecutive' = NconsecutiveAfter(RK_Decomp(info1, info2), Nconsecutive)
    /\ Nconsecutive' < MaxConsecutive
    /\ F0at' = F0Now
    /\ A' = JacNow
    /\ lu' = [H |-> H, A |-> JacNow, ok |-> FALSE]
    /\ failRun' = failRun + 1
    /\ H' = LUFailH(H)
    /\ Reject' = RejectFlags.Reject
    /\ SkipJac' = RejectFlags.SkipJac
    /\ SkipLU' = RejectFlags.SkipLU
    /\ last' = [NoAttempt EXCEPT !.kind = "lufail", !.t = t, !.H = H, !.y = y,
                                 !.dydt = CallsDydt]
    /\ UNCHANGED <<pc, code, t_end, t, Hold, Hacc, ErrOldRt, FirstStep, Nsteps,
                   NewtonRate, y, yNaN>>

\* lines 475-482: the 5th consecutive failure
LUAbort ==
    /\ UNCHANGED <<dispVars, normVars, optVars, logVars, unitVars>>
    /\ ident' = FALSE
    /\ UNCHANGED <<y0, sc, CONT>>
    /\ pc = "loop"
    /\ LoopCond
    /\ ~SkipLU
    /\ \E info1, info2 \in Infos :
        /\ RK_Decomp(info1, info2) # 0
        /\ Nconsecutive' = NconsecutiveAfter(RK_Decomp(info1, info2), Nconsecutive)
    /\ Nconsecutive' >= MaxConsecutive
    /\ F0at' = F0Now
    /\ A' = JacNow
    /\ lu' = [H |-> H, A |-> JacNow, ok |-> FALSE]
    /\ failRun' = failRun + 1
    /\ yNaN' = TRUE
    /\ pc' = "returned"
    /\ code' = "MAX_CONSECUTIVE_ERRORS_EXCEEDED"
    /\ last' = [NoAttempt EXCEPT !.kind = "luabort", !.t = t, !.H = H, !.y = y,
                                 !.dydt = CallsDydt]
    /\ UNCHANGED <<t_end, t, H, Hold, Hacc, ErrOldRt, Reject, FirstStep, SkipJac,
                   SkipLU, Nsteps, NewtonRate, y>>

\* lines 465-494: the iteration gets past the factorization (skipped, or
\* done with info = 0) and counts a step
Factored ==
    /\ pc = "loop"
    /\ LoopCond
    /\ SkipLU \/ \E info1, info2 \in Infos : RK_Decomp(info1, info2) = 0
    /\ F0at' = F0Now
    /\ A' = JacNow
    /\ lu' = IF SkipLU THEN lu ELSE [H |-> H, A |-> JacNow, ok |-> TRUE]
    /\ Nconsecutive' = IF SkipLU THEN Nconsecutive
                       ELSE NconsecutiveAfter(0, Nconsecutive)
    /\ failRun' = IF SkipLU THEN failRun ELSE 0
    /\ Nsteps' = Nsteps + 1

\* lines 495-499
MaxStepsExit ==
    /\ UNCHANGED <<dispVars, normVars, optVars, logVars, unitVars>>
    /\ UNCHANGED <<y0, sc, ident, CONT>>
    /\ Factored
    /\ Nsteps + 1 >= Max_no_steps
    /\ pc' = "exited"
    /\ code' = "MAX_STEPS_EXCEEDED"
    /\ last' = [NoAttempt EXCEPT !.kind = "maxsteps", !.t = t, !.H = H, !.y = y,
                                 !.dydt = CallsDydt]
    /\ UNCHANGED <<t_end, t, H, Hold, Hacc, ErrOldRt, Reject, FirstStep, SkipJac,
                   SkipLU, NewtonRate, y, yNaN>>

\* lines 500-503
HTooSmallExit ==
    /\ UNCHANGED <<dispVars, normVars, optVars, logVars, unitVars>>
    /\ UNCHANGED <<y0, sc, ident, CONT>>
    /\ Factored
    /\ Nsteps + 1 < Max_no_steps
    /\ HTooSmall
    /\ pc' = "exited"
    /\ code' = "H_PLUS_T_EQUALS_H"
    /\ last' = [NoAttempt EXCEPT !.kind = "hsmall", !.t = t, !.H = H, !.y = y,
                                 !.dydt = CallsDydt]
    /\ UNCHANGED <<t_end, t, H, Hold, Hacc, ErrOldRt, Reject, FirstStep, SkipJac,
                   SkipLU, NewtonRate, y, yNaN>>

\* line 24
StartNewton == TRUE
\* the stages are always extrapolated
NewtonStartInterp(first) == "interp"
\* lines 504-510: the starting values of Z1, Z2, Z3: all zero, or
\* RK_Interpolate(H, Hold, Z1, Z2, Z3, CONT)
NewtonStart(first) == IF first \/ ~StartNewton THEN "zero" ELSE "interp"

\* lines 504-566: the attempt reaches the Newton loop
Attempted ==
    /\ Factored
    /\ Nsteps + 1 < Max_no_steps
    /\ ~HTooSmall

\* lines 567-573, and 561-565: the Newton loop ends without convergence
NewtonFail ==
    /\ UNCHANGED <<dispVars, normVars, optVars, logVars, unitVars>>
    /\ UNCHANGED <<y0, sc, ident, CONT>>
    /\ Attempted
    /\ \E carried \in Pow08Set(NewtonRate) : \E o \in NewtonFails[carried] :
        /\ NewtonRate' = o.NewtonRate
        /\ IF o.kind = "maxit"
           THEN /\ yNaN' = TRUE
                /\ pc' = "returned"
                /\ code' = "MAX_NEWTON_ITER_EXCEEDED"
                /\ UNCHANGED <<H, Reject, SkipJac, SkipLU>>
           ELSE /\ H' = Mul(o.Fac, H)
                /\ Reject' = RejectFlags.Reject
                /\ SkipJac' = RejectFlags.SkipJac
                /\ SkipLU' = RejectFlags.SkipLU
                /\ UNCHANGED <<yNaN, pc, code>>
        /\ last' = [NoAttempt EXCEPT !.kind = "newton_" \o o.kind, !.t = t,
                                     !.H = H, !.y = y, !.dydt = CallsDydt,
                                     !.start = NewtonStart(FirstStep),
                                     !.NewtonIter = o.NewtonIter,
                                     !.Fac = o.Fac]
    /\ UNCHANGED <<t_end, t, Hold, Hacc, ErrOldRt, FirstStep, y>>

\* lines 650-651: the classical step factor, from the fourth root of Err
ClassicFac(errRt, NewtonIter) ==
    LET Fac == RMul(RDiv(One, errRt),
                    <<1 + 2 * NewtonMaxit, NewtonIter + 1 + 2 * NewtonMaxit>>)
    IN  RMin(FacMax, RMax(FacMin, Fac))

\* lines 656-658: the Gustafsson factor,
\* FacSafe * (H / Hacc) * (Err^2 / ErrOld)^(-1/4)
GusFac(errRt, h, hacc, errOldRt) ==
    LET FacGus == RMul(RMul(FacSafe, <<h, hacc>>),
                       RDiv(errOldRt, RMul(errRt, errRt)))
    IN  RMin(FacMax, RMax(FacMin, FacGus))

\* the rejected step always takes the classical step size
RejectHNew(first, rej, Hnew, h) == Hnew
\* lines 694-698: H after a step rejected for its error
RejectH(first, rej, Hnew, h) == IF first \/ rej THEN Mul(FacRej, h) ELSE Hnew

\* lines 693-702: Newton converged, Err >= 1
ErrReject ==
    /\ UNCHANGED <<dispVars, normVars, optVars, logVars, unitVars>>
    /\ UNCHANGED <<y0, sc, ident, CONT>>
    /\ Attempted
    /\ \E carried \in Pow08Set(NewtonRate) : \E o \in NewtonDones[carried] :
       \E errRt \in {r \in ErrRoots : ~RLess(r, One)} :
        LET Hnew == Mul(ClassicFac(errRt, o.NewtonIter), H)
        IN  /\ NewtonRate' = o.NewtonRate
            /\ H' = RejectH(FirstStep, Reject, Hnew, H)
            /\ last' = [NoAttempt EXCEPT !.kind = "errreject", !.t = t, !.H = H,
                                         !.y = y, !.Hnew = Hnew,
                                         !.dydt = CallsDydt,
                                         !.start = NewtonStart(FirstStep),
                                         !.NewtonIter = o.NewtonIter,
                                         !.errRt = errRt]
    /\ Reject' = RejectFlags.Reject
    /\ SkipJac' = RejectFlags.SkipJac
    /\ SkipLU' = RejectFlags.SkipLU
    /\ UNCHANGED <<pc, code, t_end, t, Hold, Hacc, ErrOldRt, FirstStep, y, yNaN>>

\* line 666
CommitT(tt, h) == tt + h
\* the increment is dropped
CommitYKept(yy, Z3) == yy
\* lines 668-670
CommitY(yy, Z3) == VAdd(yy, Z3)
\* line 682: t + Hnew / Qmin - t_end >= 0.0
ReachesEnd(tt, Hnew) == (tt - t_end) * Qmin[1] + Hnew * Qmin[2] >= 0
\* line 687
ReuseLU(Theta, Hnew, h) ==
    /\ RLeq(Theta, ThetaMin)
    /\ RLeq(Qmin, <<Hnew, h>>)
    /\ RLeq(<<Hnew, h>>, Qmax)

\* line 425
Hmin == 0
\* lines 677-680: Hnew within [Hmin, t_end - t], and within H after a rejection
ClampHnew(hn, rej, h, rem) ==
    LET c == Min(Max(hn, Hmin), rem) IN IF rej THEN Min(c, h) ELSE c
\* the error of the step is remembered as it is
ErrOldRaw(errRt) == errRt
\* line 662: ErrOld = fmax(1e-2, Err), as fourth roots
ErrOldAfter(errRt) == RMax(ErrFloorRt, errRt)

\* lines 653-692: Newton converged, Err < 1: the step is accepted
Accept ==
    /\ UNCHANGED <<dispVars, normVars, optVars, logVars, unitVars>>
    /\ Attempted
    /\ \E carried \in Pow08Set(NewtonRate) : \E o \in NewtonDones[carried] :
       \E errRt \in {r \in ErrRoots : RLess(r, One)} : \E Z3 \in ZSet :
        LET Fac0 == ClassicFac(errRt, o.NewtonIter)
            Fac == IF ~FirstStep
                   THEN RMin(Fac0, GusFac(errRt, H, Hacc, ErrOldRt))
                   ELSE Fac0
            tNew == CommitT(t, H)
            Hnew == ClampHnew(Mul(Fac, H), Reject, H, t_end - tNew)
            reuse == ReuseLU(o.Theta, Hnew, H)
        IN  /\ NewtonRate' = o.NewtonRate
            /\ Hacc' = H
            /\ ErrOldRt' = ErrOldAfter(errRt)
            /\ Hold' = H
            /\ t' = tNew
            /\ y' = CommitY(y, Z3)
            /\ sc' = scale(CommitY(y, Z3), y0)
            /\ y0' = CommitY(y, Z3)
            /\ CONT' = IF StartNewton THEN t ELSE CONT
            /\ ident' = (ident /\ Z3 = Vec(0))
            /\ IF ReachesEnd(tNew, Hnew)
               THEN /\ H' = t_end - tNew
                    /\ UNCHANGED SkipLU
               ELSE /\ SkipLU' = reuse
                    /\ H' = IF reuse THEN H ELSE Hnew
            /\ SkipJac' = (o.NewtonIter = 1 \/ RLeq(o.NewtonRate, ThetaMin))
            /\ last' = [kind |-> "accept", t |-> t, H |-> H, y |-> y, Z3 |-> Z3,
                        Hnew |-> Hnew, thetaOK |-> RLeq(o.Theta, ThetaMin),
                        dydt |-> CallsDydt, start |-> NewtonStart(FirstStep),
                        NewtonIter |-> o.NewtonIter, Fac |-> Fac,
                        errRt |-> errRt]
    /\ FirstStep' = FALSE
    /\ Reject' = FALSE
    /\ UNCHANGED <<pc, code, t_end, yNaN>>

\* Integrator::checkError, generic/solver.hpp:68-89, on the code of the call
CheckError ==
    /\ UNCHANGED <<dispVars, normVars, optVars, logVars, unitVars>>
    /\ UNCHANGED <<y0, sc, ident, CONT>>
    /\ pc = "returned"
    /\ pc' = IF code \in {"MAX_CONSECUTIVE_ERRORS_EXCEEDED", "MAX_STEPS_EXCEEDED",
                          "H_PLUS_T_EQUALS_H", "MAX_NEWTON_ITER_EXCEEDED"}
             THEN "exited" ELSE "checked"
    /\ UNCHANGED <<code, t_end, t, H, Hold, Hacc, ErrOldRt, Reject, FirstStep,
                   SkipJac, SkipLU, Nconsecutive, Nsteps, NewtonRate, y, yNaN,
                   A, lu, F0at, last, failRun>>

---------------------------------------------------------------------------
(* RK_ErrorNorm, radau2a.c:349-375 *)

UNROLL == 8

\* the values the read of sums[UNROLL], one past the array, can produce
OOB == {-1, 0, 1}
\* the square of the floor 1e-10 of the norm
NormFloorSq == <<1, 10000>>

RECURSIVE SumTo(_, _)
\* f[0] + ... + f[n]
SumTo(f, n) == IF n < 0 THEN 0 ELSE f[n] + SumTo(f, n - 1)

\* The square of the value RK_ErrorNorm returns for vectors of n entries
\* (entry i of the C arrays scale and DY is scaleV[i + 1], DY[i + 1]).  oob is what the
\* read of sums[UNROLL] at line 372 yields.
RK_ErrorNorm(n, scaleV, DY, oob) ==
    LET start == n % UNROLL
        term(i) == scaleV[i + 1] * scaleV[i + 1] * DY[i + 1] * DY[i + 1]
        \* lines 353-358
        modPart == [j \in 0..(UNROLL - 1) |-> IF j < start THEN term(j) ELSE 0]
        \* lines 361-367: blocks i = start, start + UNROLL, ... below n
        blocks == (n - start) \div UNROLL
        sums == [j \in 0..UNROLL |->
                    IF j = UNROLL THEN oob
                    ELSE modPart[j]
                         + SumTo([b \in 0..(blocks - 1) |->
                                     term(start + b * UNROLL + j)], blocks - 1)]
        \* lines 369-373: i runs to UNROLL inclusive
        sum == SumTo(sums, UNROLL)
    IN  \* line 374: sqrt of a negative sum is NaN and fmax returns the floor
        IF sum <= 0 THEN NormFloorSq ELSE RMax(<<sum, n>>, NormFloorSq)

NoRun == <<0, 1>>

NormInit ==
    /\ normIn \in [scale : [1..NN -> 1..2], DY : [1..NN -> -1..1]]
    /\ run1 = NoRun
    /\ run2 = NoRun

IdleNorm ==
    /\ normIn = [scale |-> Vec(1), DY |-> Vec(0)]
    /\ run1 = NoRun
    /\ run2 = NoRun

\* a first run on the input
NormRun1 ==
    /\ run1 = NoRun
    /\ \E g \in OOB : run1' = RK_ErrorNorm(NN, normIn.scale, normIn.DY, g)
    /\ UNCHANGED <<normIn, run2, intVars, dispVars, optVars, logVars, unitVars>>

\* a second run on the same input
NormRun2 ==
    /\ run2 = NoRun
    /\ \E g \in OOB : run2' = RK_ErrorNorm(NN, normIn.scale, normIn.DY, g)
    /\ UNCHANGED <<normIn, run1, intVars, dispVars, optVars, logVars, unitVars>>

---------------------------------------------------------------------------
(* Integrator::intDriver, generic/opencl/solver.hpp:912-1055, and the      *)
(* driver kernels it launches.  The kernels are not among the sources; the *)
(* workers below follow their description: in queue mode a worker claims   *)
(* an index by an atomic fetch-and-add of 1 on the queue counter until the *)
(* value it gets is not below the number of problems; in static mode       *)
(* worker w takes the indices [w*K/W, (w+1)*K/W).                          *)

MaxNUM == 3
MaxBlocks == 2
BlockSizes == {1, 2}
MaxThreads == 2 * MaxBlocks
Slots == (-1)..MaxNUM

\* line 950
NumThreads(blockSize, numBlocks) == blockSize * numBlocks
\* the counter starts at the largest problem count
QueueInitAtMax == MaxNUM
\* line 977: int queue_val = 0
QueueInit == 0
\* the kernel is handed one more, or one less, than NUM
KernelArgOneMore(n) == n + 1
KernelArgOneLess(n) == n - 1
\* line 997: the kernel is handed NUM
KernelArgNUM(n) == n

\* the input state of IVP i
IvpIn(i) == 10 * i
\* the state one integration leaves for an IVP: a function of its input
IntegrateIVP(x) == x + 1

\* the counters one integration leaves for an IVP: a function of its input
IvpCounters(x) == [nsteps |-> 1 + x \div 10, niters |-> 2 + 3 * (x \div 10)]
\* an entry of buffer_counters no kernel has written
Unwritten == [nsteps |-> -7, niters |-> -7]

Workers == 0..(numThreads - 1)

\* lines 934 and 958-964, and 973-977 in queue mode: the kernel and the
\* buffers one call of intDriver creates
Created(m) ==
    {"kernel", "buffer_param", "t0", "tf", "buffer_phi", "buffer_solver",
     "buffer_rwk", "buffer_counters"}
        \cup (IF m = "queue" THEN {"buffer_queue"} ELSE {})
\* lines 1042-1049: the objects the call releases before it returns
Released ==
    {"kernel", "buffer_param", "t0", "tf", "buffer_phi", "buffer_solver",
     "buffer_rwk", "buffer_counters"}

DispInit ==
    /\ mode \in {"static", "queue"}
    /\ NUM \in 0..MaxNUM
    /\ \E bs \in BlockSizes, nb \in 1..MaxBlocks : numThreads = NumThreads(bs, nb)
    /\ problems = KernelArgNUM(NUM)
    /\ queue = IF mode = "queue" THEN QueueInit ELSE 0
    /\ wpc = [w \in 0..(MaxThreads - 1) |->
                IF w >= numThreads THEN "done"
                ELSE IF mode = "queue" THEN "fetch" ELSE "start"]
    /\ widx = [w \in 0..(MaxThreads - 1) |-> 0]
    /\ phi = [i \in Slots |-> IvpIn(i)]
    /\ claims = [i \in Slots |-> {}]
    /\ runs = [i \in Slots |-> 0]
    /\ counters = [i \in Slots |-> Unwritten]
    /\ hpc = "launched"
    /\ hostPhi = [i \in Slots |-> IvpIn(i)]
    /\ nst = 0
    /\ nit = 0
    /\ live = Created(mode)

IdleDisp ==
    /\ mode = "static"
    /\ NUM = 0
    /\ numThreads = 0
    /\ problems = 0
    /\ queue = 0
    /\ wpc = [w \in 0..(MaxThreads - 1) |-> "done"]
    /\ widx = [w \in 0..(MaxThreads - 1) |-> 0]
    /\ phi = [i \in Slots |-> IvpIn(i)]
    /\ claims = [i \in Slots |-> {}]
    /\ runs = [i \in Slots |-> 0]
    /\ counters = [i \in Slots |-> Unwritten]
    /\ hpc = "read"
    /\ hostPhi = [i \in Slots |-> IvpIn(i)]
    /\ nst = 0
    /\ nit = 0
    /\ live = {}

\* the bounds of worker w's chunk in static mode
StaticLo(w) == (w * problems) \div numThreads
StaticHi(w) == ((w + 1) * problems) \div numThreads

\* queue mode: worker w claims the next index
QueueFetch(w) ==
    /\ mode = "queue"
    /\ wpc[w] = "fetch"
    /\ queue' = queue + 1
    /\ IF queue < problems
       THEN /\ widx' = [widx EXCEPT ![w] = queue]
            /\ wpc' = [wpc EXCEPT ![w] = "work"]
            /\ claims' = [claims EXCEPT ![queue] = @ \cup {w}]
       ELSE /\ wpc' = [wpc EXCEPT ![w] = "done"]
            /\ UNCHANGED <<widx, claims>>
    /\ UNCHANGED <<mode, NUM, numThreads, problems, phi, runs, intVars, normVars, optVars, logVars, unitVars>>
    /\ UNCHANGED <<counters, hpc, hostPhi, nst, nit, live>>

\* static mode: worker w enters its chunk
StaticStart(w) ==
    /\ mode = "static"
    /\ wpc[w] = "start"
    /\ IF StaticLo(w) < StaticHi(w)
       THEN /\ widx' = [widx EXCEPT ![w] = StaticLo(w)]
            /\ wpc' = [wpc EXCEPT ![w] = "work"]
            /\ claims' = [claims EXCEPT ![StaticLo(w)] = @ \cup {w}]
       ELSE /\ wpc' = [wpc EXCEPT ![w] = "done"]
            /\ UNCHANGED <<widx, claims>>
    /\ UNCHANGED <<mode, NUM, numThreads, problems, queue, phi, runs, intVars,
                   normVars, optVars, logVars, unitVars>>
    /\ UNCHANGED <<counters, hpc, hostPhi, nst, nit, live>>

\* worker w integrates the IVP it holds, in place, and moves on
Work(w) ==
    /\ wpc[w] = "work"
    /\ phi' = [phi EXCEPT ![widx[w]] = IntegrateIVP(@)]
    /\ runs' = [runs EXCEPT ![widx[w]] = @ + 1]
    /\ IF mode = "queue"
       THEN /\ wpc' = [wpc EXCEPT ![w] = "fetch"]
            /\ UNCHANGED <<widx, claims>>
       ELSE IF widx[w] + 1 < StaticHi(w)
       THEN /\ widx' = [widx EXCEPT ![w] = @ + 1]
            /\ claims' = [claims EXCEPT ![widx[w] + 1] = @ \cup {w}]
            /\ UNCHANGED wpc
       ELSE /\ wpc' = [wpc EXCEPT ![w] = "done"]
            /\ UNCHANGED <<widx, claims>>
    /\ counters' = [counters EXCEPT ![widx[w]] = IvpCounters(phi[widx[w]])]
    /\ UNCHANGED <<mode, NUM, numThreads, problems, queue, intVars, normVars, optVars, logVars, unitVars>>
    /\ UNCHANGED <<hpc, hostPhi, nst, nit, live>>

AllDone == \A w \in Workers : wpc[w] = "done"

\* the event is signalled as soon as the kernel is enqueued
KernelFinishedAtOnce == TRUE
\* line 1013: the event of the kernel is complete when every work-item is
KernelFinished == AllDone

\* lines 1004-1015: the host waits for the kernel's event
HostWait ==
    /\ hpc = "launched"
    /\ KernelFinished
    /\ hpc' = "waited"
    /\ UNCHANGED <<mode, NUM, numThreads, problems, queue, wpc, widx, phi, claims,
                   runs, counters, hostPhi, nst, nit, live>>
    /\ UNCHANGED <<intVars, normVars, optVars, logVars, unitVars>>

\* lines 1022-1054: the host copies phi and the counters out, sums them,
\* releases the kernel and the buffers and returns
HostReadBack ==
    /\ hpc = "waited"
    /\ hostPhi' = [i \in Slots |-> IF i \in 0..(NUM - 1) THEN phi[i]
                                    ELSE hostPhi[i]]
    /\ nst' = SumTo([i \in 0..(NUM - 1) |-> counters[i].nsteps], NUM - 1)
    /\ nit' = SumTo([i \in 0..(NUM - 1) |-> counters[i].niters], NUM - 1)
    /\ live' = live \ Released
    /\ hpc' = "read"
    /\ UNCHANGED <<mode, NUM, numThreads, problems, queue, wpc, widx, phi, claims,
                   runs, counters>>
    /\ UNCHANGED <<intVars, normVars, optVars, logVars, unitVars>>

---------------------------------------------------------------------------
(* SolverOptions, cl_init and the scalar-time overload of intDriver,        *)
(* generic/opencl/solver.hpp:93-109, 555-573, 822-830.  std::size_t is an   *)
(* unsigned integer modulo SizeMod; a double holds the integers below       *)
(* SizeMod / 2 exactly and above that only the even ones.                  *)

\* the modulus of std::size_t, scaled down from 2^64
SizeMod == 8
\* the largest max_compute_units of a device
MaxComputeUnits == 3
\* the largest NUM and the largest start time handed to the driver
MaxDrvNUM == 2
MaxDrvT == 2

\* int to std::size_t
ToSizeT(n) == n % SizeMod
\* std::size_t to double: rounded to the nearest value a double holds
SizeToDouble(sz) == IF sz < SizeMod \div 2 THEN sz ELSE ((sz + 1) \div 2) * 2
\* double to std::size_t: undefined when the value is out of range
DoubleToSizeT(d) == IF d < SizeMod THEN {d} ELSE 0..(SizeMod - 1)

RECURSIVE isPower2(_)
\* lines 305-308: (x > 0) && ((x & (x-1)) == 0)
isPower2(x) == x > 0 /\ (x = 1 \/ (x % 2 = 0 /\ isPower2(x \div 2)))

\* what reading an array past its end can yield
PastEnd == {0, 99}

OptionArgs ==
    [vectorSize : 1..3, blockSize : 1..3, numBlocks : {-1, 0, 2},
     atol : {0, 1}, rtol : {0, 1}, h_init : {-1, 1}, order : {"C", "F", "X"},
     units : {1, MaxComputeUnits}, stored : {0}]

DriverArgs ==
    {d \in [NUM : 1..MaxDrvNUM, t : 0..MaxDrvT, t_end : 1..(MaxDrvT + 1),
             t0 : {<<>>}, tf : {<<>>}] : d.t_end = d.t + 1}

OptInit ==
    /\ opt \in OptionArgs
    /\ opc = "args"
    /\ cl = [blockSize |-> 0, numBlocks |-> 0, vectorSize |-> 0]
    /\ drv \in DriverArgs

IdleOpt ==
    /\ opt = [vectorSize |-> 1, blockSize |-> 1, numBlocks |-> 1, atol |-> 1,
              rtol |-> 1, h_init |-> 1, order |-> "C", units |-> 1, stored |-> 1]
    /\ opc = "halted"
    /\ cl = [blockSize |-> 0, numBlocks |-> 0, vectorSize |-> 0]
    /\ drv = [NUM |-> 1, t |-> 0, t_end |-> 1, t0 |-> <<>>, tf |-> <<>>]

\* lines 93-109: the constructor stores its arguments (numBlocks in a
\* std::size_t) and asserts the order; opt.stored is _numBlocks
SolverOptions ==
    /\ opc = "args"
    /\ opt' = [opt EXCEPT !.stored = ToSizeT(opt.numBlocks)]
    /\ opc' = IF opt.order \in {"C", "F"} THEN "built" ELSE "halted"
    /\ UNCHANGED <<cl, drv, intVars, dispVars, normVars, logVars, unitVars>>

\* lines 555-573, called first thing by intDriver (line 916)
cl_init ==
    /\ opc = "built"
    /\ \E nb \in (IF SizeToDouble(opt.stored) > 0
                   THEN DoubleToSizeT(SizeToDouble(opt.stored))
                   ELSE {opt.units}) :
          IF isPower2(opt.vectorSize) /\ isPower2(opt.blockSize)
          THEN /\ cl' = [blockSize |-> Max(opt.blockSize, opt.vectorSize)
                                          \div opt.vectorSize,
                         numBlocks |-> nb,
                         vectorSize |-> opt.vectorSize]
               /\ opc' = "ready"
          ELSE /\ cl' = [blockSize |-> opt.blockSize, numBlocks |-> nb,
                         vectorSize |-> opt.vectorSize]
               /\ opc' = "halted"
    /\ UNCHANGED <<opt, drv, intVars, dispVars, normVars, logVars, unitVars>>

\* std::vector<double>(count, value): count entries, each equal to value
FillVector(count, value) == [i \in 0..(count - 1) |-> value]

\* lines 822-830: the scalar-time overload builds t_vec(t, NUM) and
\* t_end_vec(t_end, NUM) and hands their data to the array overload, which
\* reads entries 0..NUM-1 of each
intDriverScalar ==
    /\ opc = "ready"
    /\ LET t_vec == FillVector(drv.t, drv.NUM)
           t_end_vec == FillVector(drv.t_end, drv.NUM)
           Read(v, g) == [i \in 0..(drv.NUM - 1) |->
                            IF i \in DOMAIN v THEN v[i] ELSE g[i]]
       IN  \E g0, g1 \in [0..(drv.NUM - 1) -> PastEnd] :
              drv' = [drv EXCEPT !.t0 = Read(t_vec, g0), !.tf = Read(t_end_vec, g1)]
    /\ opc' = "driven"
    /\ UNCHANGED <<opt, cl, intVars, dispVars, normVars, logVars, unitVars>>

---------------------------------------------------------------------------
(* The log of IntegatorBase, generic/opencl/solver.hpp:733-758, 878-882 *)

\* _neq
LogNeq == 2
\* the largest number of entries, and the largest NUM
MaxLog == 3
MaxLogNUM == 2

LogTimes == {3, 4}
\* the state arrays passed to log(): NUM * _neq doubles
LogPhis(n) == {[k \in 0..(n * LogNeq - 1) |-> k + 10],
               [k \in 0..(n * LogNeq - 1) |-> 20 - 2 * k]}

\* the states are stored one place early
LogEntryShifted(n, tt, ph) ==
    [k \in 0..(n * LogNeq) |-> IF k = 0 THEN tt ELSE ph[k % (n * LogNeq)]]
\* lines 736-740: the array a call of log() appends
LogEntry(n, tt, ph) ==
    [k \in 0..(n * LogNeq) |-> IF k = 0 THEN tt ELSE ph[k - 1]]

\* getLog, lines 744-752: the arrays times and phi it fills
getLog(n, lg) ==
    [times |-> [index \in 0..(Len(lg) - 1) |-> lg[index + 1][0]],
     phi |-> [j \in 0..(Len(lg) * n * LogNeq - 1) |->
                 lg[(j \div (n * LogNeq)) + 1][1 + (j % (n * LogNeq))]]]

\* numSteps, lines 755-758
numSteps(lg) == Len(lg)

LogInit ==
    /\ logNUM \in 1..MaxLogNUM
    /\ logv = <<>>
    /\ calls = <<>>
    /\ cleaned = FALSE

IdleLog ==
    /\ logNUM = 1
    /\ logv = <<>>
    /\ calls = <<>>
    /\ cleaned = FALSE

\* log, lines 733-741
log ==
    /\ Len(logv) < MaxLog
    /\ \E tt \in LogTimes, ph \in LogPhis(logNUM) :
          /\ logv' = Append(logv, LogEntry(logNUM, tt, ph))
          /\ calls' = Append(calls, [t |-> tt, phi |-> ph])
    /\ UNCHANGED <<logNUM, cleaned, intVars, dispVars, normVars, optVars, unitVars>>

\* clean, lines 878-882
clean ==
    /\ logv' = <<>>
    /\ calls' = <<>>
    /\ cleaned' = TRUE
    /\ UNCHANGED <<logNUM, intVars, dispVars, normVars, optVars, unitVars>>

---------------------------------------------------------------------------
(* Specifications *)

\* one call of integrate, and the error check on its code
Init == IntInit /\ IdleDisp /\ IdleNorm /\ IdleOpt /\ IdleLog /\ IdleNewton

Next ==
    \/ LoopExit
    \/ LUFail
    \/ LUAbort
    \/ MaxStepsExit
    \/ HTooSmallExit
    \/ NewtonFail
    \/ ErrReject
    \/ Accept
    \/ CheckError

Spec == Init /\ [][Next]_vars

\* the same call, which goes on as long as it has a step to take
SpecLive == Spec /\ WF_vars(Next)

\* the state of integrate while another part of the program is looked at
IdleInt ==
    /\ pc = "checked"
    /\ code = "SUCCESS"
    /\ t_end = 1
    /\ t = 1
    /\ H = 0
    /\ Hold = 0
    /\ Hacc = 0
    /\ ErrOldRt = <<0, 1>>
    /\ Reject = FALSE
    /\ FirstStep = TRUE
    /\ SkipJac = FALSE
    /\ SkipLU = FALSE
    /\ Nconsecutive = 0
    /\ Nsteps = 0
    /\ NewtonRate = NewtonRateInit
    /\ y = YInit
    /\ yNaN = FALSE
    /\ A = -1
    /\ lu = [H |-> 0, A |-> -1, ok |-> FALSE]
    /\ F0at = -1
    /\ sc = scale_init(YInit)
    /\ y0 = YInit
    /\ CONT = -1
    /\ last = NoAttempt
    /\ failRun = 0
    /\ ident = FALSE

\* one batch through the driver; every worker that can take a step
\* eventually takes it
DispInitAll == DispInit /\ IdleInt /\ IdleNorm /\ IdleOpt /\ IdleLog /\ IdleNewton

DispNext ==
    \/ \E w \in Workers : QueueFetch(w)
    \/ \E w \in Workers : StaticStart(w)
    \/ \E w \in Workers : Work(w)
    \/ HostWait
    \/ HostReadBack

SpecDisp ==
    /\ DispInitAll
    /\ [][DispNext]_vars
    /\ WF_vars(HostWait \/ HostReadBack)
    /\ \A w \in 0..(MaxThreads - 1) :
          WF_vars(w \in Workers /\ (QueueFetch(w) \/ StaticStart(w) \/ Work(w)))

\* two runs of RK_ErrorNorm on one input
NormInitAll == NormInit /\ IdleInt /\ IdleDisp /\ IdleOpt /\ IdleLog /\ IdleNewton

NormNext ==
    \/ NormRun1
    \/ NormRun2

SpecNorm == NormInitAll /\ [][NormNext]_vars

\* options, device set-up and one call of the scalar-time driver
OptInitAll == OptInit /\ IdleInt /\ IdleDisp /\ IdleNorm /\ IdleLog /\ IdleNewton

OptNext ==
    \/ SolverOptions
    \/ cl_init
    \/ intDriverScalar

SpecOpt == OptInitAll /\ [][OptNext]_vars

\* calls of log() and clean() on one integrator
LogInitAll == LogInit /\ IdleInt /\ IdleDisp /\ IdleNorm /\ IdleOpt /\ IdleNewton

LogNext ==
    \/ log
    \/ clean

SpecLog == LogInitAll /\ [][LogNext]_vars

\* the Newton loop of one attempt, pass by pass
NewtonInitAll ==
    /\ NewtonInit /\ IdleInterp
    /\ IdleInt /\ IdleDisp /\ IdleNorm /\ IdleOpt /\ IdleLog

NewtonNext ==
    \/ NewtonIteration
    \/ NewtonLoopEnd

SpecNewton == NewtonInitAll /\ [][NewtonNext]_vars

\* one call of RK_Interpolate
InterpInitAll ==
    /\ InterpInit /\ NewtonIdleSt
    /\ IdleInt /\ IdleDisp /\ IdleNorm /\ IdleOpt /\ IdleLog

InterpNext == InterpCall

SpecInterp == InterpInitAll /\ [][InterpNext]_vars

---------------------------------------------------------------------------
(* Properties of integrate *)

AttemptKinds == {"newton_theta", "newton_predicted", "newton_maxit",
                 "errreject", "accept"}

\* C1: t never passes t_end, every attempted step (the first, taken with the
\* initial step size, included) has t + H <= t_end, and a normal return
\* leaves t + Roundoff >= t_end.
C1_EndsAtTEnd ==
    /\ t <= t_end
    /\ last.kind \in AttemptKinds => last.t + last.H <= t_end
    /\ (pc \in {"returned", "checked"} /\ code = "SUCCESS")
          => t * RoundoffDen + 1 >= t_end * RoundoffDen

\* C2: no fatal condition of an IVP ends the process, neither inside
\* integrate nor in the check of its code.
C2_NoProcessExit == pc # "exited"

\* C3: a failed factorization that is not the 5th in a row halves H, sets
\* Reject and SkipJac, clears SkipLU and leaves t and y alone; the abort
\* comes after exactly 5 failures in a row; any successful factorization
\* puts the count back to 0.
C3_LUFailureProtocol ==
    /\ last.kind = "lufail"
          => /\ pc = "loop"
             /\ H = last.H \div 2
             /\ Reject /\ SkipJac /\ ~SkipLU
             /\ t = last.t /\ y = last.y /\ ~yNaN
             /\ failRun \in 1..(MaxConsecutive - 1)
    /\ last.kind = "luabort"
          => /\ failRun = MaxConsecutive
             /\ code = "MAX_CONSECUTIVE_ERRORS_EXCEEDED"
             /\ pc # "loop"
             /\ yNaN
             /\ t = last.t /\ y = last.y
    /\ code = "MAX_CONSECUTIVE_ERRORS_EXCEEDED" => last.kind = "luabort"
    /\ last.kind \notin {"lufail", "luabort"} => Nconsecutive = 0 /\ failRun = 0
    /\ Nconsecutive = failRun

C3_Witness ==
    /\ last.kind = "luabort"
    /\ failRun = MaxConsecutive
    /\ Nsteps > 0

\* C4: an accepted step leaves t = t_old + H and y = y_old + Z3, H being the
\* step size of that attempt; nothing else changes t or y, and only an abort
\* marks y.
C4_AcceptedStep ==
    /\ last.kind = "accept"
          => /\ t = last.t + last.H
             /\ y = [i \in 1..NN |-> last.y[i] + last.Z3[i]]
    /\ last.kind \notin {"accept", "none"} => t = last.t /\ y = last.y
    /\ last.kind = "none" => y = YInit /\ t \in TStarts
    /\ yNaN => last.kind \in {"luabort", "newton_maxit"}

C4_Witness ==
    /\ last.kind = "accept"
    /\ last.H > 0
    /\ last.Z3 # Vec(0)
    /\ last.t > 0

\* C5: an attempt that starts with SkipLU = true finds a factorization made
\* with the current H and the stored Jacobian.
C5_LUReuse ==
    (pc = "loop" /\ LoopCond /\ SkipLU)
       => (lu.ok /\ lu.H = H /\ lu.A = A)

\* C6: an attempt starts with SkipLU = true only right after an accepted
\* step with Theta <= ThetaMin and Hnew / H within [Qmin, Qmax].
C6_SkipLUOnlyAfterGoodAccept ==
    (pc = "loop" /\ LoopCond /\ SkipLU)
       => /\ last.kind = "accept"
          /\ last.thetaOK
          /\ RLeq(Qmin, <<last.Hnew, last.H>>)
          /\ RLeq(<<last.Hnew, last.H>>, Qmax)

\* C14: every loop iteration of integrate, whatever its outcome (a failed
\* factorization included), adds exactly 1 to Nsteps.
C14_NstepsCountsAttempts ==
    [][(pc = "loop" /\ LoopCond) => Nsteps' = Nsteps + 1]_vars

\* C17: with f = 0 and J = 0 integrate returns y = y0, after at least one
\* step, every attempt accepted, no LU failure, and without an error.
C17_IdentityProblem ==
    ident
       => /\ last.kind \in {"none", "accept"}
          /\ y = YInit
          /\ pc # "exited"
          /\ pc \in {"returned", "checked"} => Nsteps >= 1 /\ code = "SUCCESS"

\* C18: sc is 1 / (ATOL + |y| * RTOL) before the first step and
\* 1 / (ATOL + max(|y_prev|, |y_new|) * RTOL) after an accepted step; any
\* other iteration leaves sc and the remembered state y0 alone.
C18_ScaleRebuild ==
    /\ [](/\ last.kind = "none"
               => /\ sc = [i \in 1..NN |-> ScaleEntry(Abs(YInit[i]))]
                  /\ y0 = YInit
          /\ last.kind = "accept"
               => /\ sc = [i \in 1..NN |->
                              ScaleEntry(Max(Abs(last.y[i]), Abs(y[i])))]
                  /\ y0 = y)
    /\ [][last'.kind # "accept" => sc' = sc /\ y0' = y0]_vars

C18_Witness ==
    /\ last.kind = "accept"
    /\ \E i \in 1..NN : Abs(y[i]) < Abs(last.y[i])
    /\ \E i \in 1..NN : Abs(y[i]) > Abs(last.y[i])
    /\ Nsteps >= 2

\* C20: integrate leaves its loop; an iteration is a failed factorization
\* (fewer than 5 in a row while the loop runs) or a counted attempt; no
\* Newton attempt starts with Nsteps >= Max_no_steps or with
\* 0.1 * |H| <= |t| * Roundoff.
C20_Terminates ==
    /\ <>(pc # "loop")
    /\ [](failRun <= MaxConsecutive /\ (pc = "loop" => failRun < MaxConsecutive))
    /\ [](last.kind \in AttemptKinds
            => /\ Nsteps < Max_no_steps
               /\ Abs(last.H) * RoundoffDen > 10 * Abs(last.t))
    /\ [][(pc = "loop" /\ LoopCond)
            => \/ last'.kind \in {"lufail", "luabort"} /\ Nsteps' = Nsteps
               \/ Nsteps' = Nsteps + 1]_vars

C20_Witness ==
    /\ pc = "returned"
    /\ code = "SUCCESS"
    /\ Nsteps = Max_no_steps - 1
    /\ \E i \in 1..NN : y[i] # YInit[i]

---------------------------------------------------------------------------
(* Properties of the dispatch *)

Problems == 0..(NUM - 1)

\* C7: in queue mode every index below NUM is claimed by exactly one worker,
\* no index outside is claimed or integrated, and every worker stops.
C7_QueueDispatch ==
    /\ [](mode = "queue"
            => /\ \A i \in Slots : Cardinality(claims[i]) <= 1
               /\ \A i \in Slots \ Problems : claims[i] = {} /\ runs[i] = 0
               /\ AllDone => \A i \in Problems : Cardinality(claims[i]) = 1)
    /\ (mode = "queue") ~> AllDone

C7_Witness ==
    /\ mode = "queue"
    /\ AllDone
    /\ NUM >= 2
    /\ \E i, j \in Problems : claims[i] # {} /\ claims[j] # {} /\ claims[i] # claims[j]

C30_AllReleased ==
    hpc = "read" => live = {}

---------------------------------------------------------------------------
(* Properties of RK_ErrorNorm *)

C10_Deterministic ==
    (run1 # NoRun /\ run2 # NoRun)
       => /\ run1 = run2
          /\ RLess(run1, One) <=> RLess(run2, One)

---------------------------------------------------------------------------
(* Properties of the options and of the scalar-time driver *)

Started == opc \in {"ready", "driven"}

\* C11: the scalar-time overload has every IVP integrated from t to t_end.
C11_ScalarOverload ==
    opc = "driven"
       => \A i \in 0..(drv.NUM - 1) : drv.t0[i] = drv.t /\ drv.tf[i] = drv.t_end

\* C12: the driver gets past cl_init only with power-of-two vector and block
\* sizes, order 'C' or 'F', and positive atol, rtol and h_init.
C12_OptionsValidated ==
    Started
       => /\ isPower2(opt.vectorSize) /\ isPower2(opt.blockSize)
          /\ opt.order \in {"C", "F"}
          /\ opt.atol > 0 /\ opt.rtol > 0 /\ opt.h_init > 0

\* C13: numBlocks is max_compute_units for an option <= 0 and the option
\* itself otherwise; the worker count is (blockSize / vectorSize) * numBlocks
\* with blockSize first raised to vectorSize.
C13_NumBlocksDefault ==
    Started
       => LET nb == IF opt.numBlocks <= 0 THEN opt.units ELSE opt.numBlocks
          IN  /\ cl.numBlocks = nb
              /\ NumThreads(cl.blockSize, cl.numBlocks)
                    = (Max(opt.blockSize, opt.vectorSize) \div opt.vectorSize) * nb

---------------------------------------------------------------------------
(* Properties of the log *)

\* C16: numSteps() is the number of log() calls since construction or the
\* last clean(), and getLog gives back the time and the states of each call,
\* in call order; after clean() the log is empty.
C16_LoggerRoundTrip ==
    /\ [](LET got == getLog(logNUM, logv)
              width == logNUM * LogNeq
          IN  /\ numSteps(logv) = Len(calls)
              /\ DOMAIN got.times = 0..(Len(calls) - 1)
              /\ \A i \in 1..Len(calls) :
                    /\ got.times[i - 1] = calls[i].t
                    /\ \A k \in 0..(width - 1) :
                          got.phi[(i - 1) * width + k] = calls[i].phi[k])
    /\ [][calls' = <<>> => numSteps(logv') = 0]_vars

C16_Witness ==
    /\ cleaned
    /\ Len(calls) = MaxLog
    /\ logNUM > 1
    /\ calls[1] # calls[2]

---------------------------------------------------------------------------
(* Properties of rejected and accepted attempts of integrate *)

RejectKinds == {"lufail", "newton_theta", "newton_predicted", "errreject"}

\* a loop iteration that ends in `continue' with the step rejected
RejectedAttempt == pc = "loop" /\ pc' = "loop" /\ Reject'

\* C21, as stated: a rejected attempt (failed factorization, Newton loop
\* without convergence, Err >= 1) leaves t, y, y0, sc, CONT, Hold, Hacc,
\* ErrOld and FirstStep alone and changes only H and the flags: the step
\* counter, the failure counter and NewtonRate are as they were. It ends
\* with Reject, SkipJac and not SkipLU; Reject is cleared only by an
\* accepted step, and FirstStep never becomes true again.
C21_RejectChangesOnlyHAndFlags ==
    [][/\ RejectedAttempt =>
            /\ UNCHANGED <<t, y, y0, sc, CONT, Hold, Hacc, ErrOldRt, FirstStep>>
            /\ UNCHANGED <<Nsteps, Nconsecutive, NewtonRate>>
            /\ SkipJac' /\ ~SkipLU'
       /\ (Reject /\ ~Reject') => last'.kind = "accept"
       /\ ~FirstStep => ~FirstStep']_vars

\* C21, amended: a rejected attempt leaves t, y, y0, sc, CONT, Hold, Hacc,
\* ErrOld and FirstStep alone and ends with Reject, SkipJac and not SkipLU.
\* Besides H and the flags it changes the counters and NewtonRate: a failed
\* factorization adds one to Nconsecutive, the other two rejections add one
\* to Nsteps and may change NewtonRate. Reject is cleared only by an accepted
\* step, which advances t by H, and FirstStep never becomes true again.
C21_RejectFrame ==
    [][/\ RejectedAttempt =>
            /\ UNCHANGED <<t, y, y0, sc, CONT, Hold, Hacc, ErrOldRt, FirstStep>>
            /\ SkipJac' /\ ~SkipLU'
            /\ last'.kind \in RejectKinds
            /\ IF last'.kind = "lufail"
               THEN /\ Nconsecutive' = Nconsecutive + 1
                    /\ UNCHANGED <<Nsteps, NewtonRate>>
               ELSE Nsteps' = Nsteps + 1
       /\ (Reject /\ ~Reject') => (last'.kind = "accept" /\ t' = t + H)
       /\ ~FirstStep => ~FirstStep']_vars

\* a step is rejected after another one was accepted, and the rejection
\* changed NewtonRate
C21_Witness ==
    /\ last.kind \in {"newton_theta", "newton_predicted", "errreject"}
    /\ Reject /\ SkipJac /\ ~SkipLU
    /\ ~FirstStep
    /\ CONT # -1
    /\ Hold > 0
    /\ NewtonRate # NewtonRateInit

---------------------------------------------------------------------------
(* Properties of the Newton loop *)

\* NI * th^m / (1 - th) >= NewtonTol, for 0 <= th < 1
RECURSIVE PredTooLarge(_, _, _)
PredTooLarge(x, th, m) ==
    IF RLess(x, RMul(NewtonTol, RSub(One, th))) THEN FALSE
    ELSE IF m = 0 THEN TRUE
    ELSE PredTooLarge(RMul(x, th), th, m - 1)

\* NI * th^m / (1 - th)
PredErr(x, th, m) == RDiv(RMul(x, RPow(th, m)), RSub(One, th))

\* C22: at a pass k >= 1, Theta >= 0.99 ends the loop unconverged and the
\* step is rejected with H * 0.5; otherwise a predicted error
\* NewtonIncrement * Theta^(NewtonMaxit - k - 1) / (1 - Theta) >= NewtonTol
\* ends it unconverged and the step is rejected with
\* H * 0.8 * min(10, predicted / NewtonTol)^(-1 / (NewtonMaxit - k)).  The
\* stages are updated, and convergence (NewtonRate * NewtonIncrement <=
\* NewtonTol) is declared, only by passes that get past both checks, and an
\* attempt runs at most NewtonMaxit passes.
C22_NewtonControl ==
    LET n == newton
        k == n.NewtonIter
        tooLarge == ~RLess(n.Theta, <<99, 100>>)
        predBreak == PredTooLarge(n.NewtonIncrement, n.Theta,
                                  NewtonMaxit - k - 1)
        Q == RMin(<<10, 1>>,
                  RDiv(PredErr(n.NewtonIncrement, n.Theta, NewtonMaxit - k - 1),
                       NewtonTol))
        converges == RLeq(RMul(n.NewtonRate, n.NewtonIncrement), NewtonTol)
    IN  /\ k < NewtonMaxit
        /\ n.updates <= NewtonMaxit
        /\ n.pc \in {"break", "rejected"} /\ ~n.NewtonDone =>
              /\ k >= 1
              /\ n.updates = k
              /\ tooLarge \/ predBreak
        /\ n.pc = "rejected" =>
              /\ ~n.NewtonDone
              /\ n.Reject /\ n.SkipJac /\ ~n.SkipLU
              /\ IF tooLarge
                 THEN n.H = Mul(<<1, 2>>, n.H0)
                 ELSE n.H = Mul(RMul(<<4, 5>>, RootInv(Q, NewtonMaxit - k)),
                                n.H0)
        /\ n.pc = "converged" =>
              /\ n.NewtonDone
              /\ n.updates = k + 1
              /\ converges
              /\ k >= 1 => (~tooLarge /\ ~predBreak)
              /\ n.H = n.H0
        /\ n.pc = "loop" => n.updates = k /\ (k >= 1 => ~converges)

\* the third pass predicts too large an error: the step is rejected with a
\* factor other than 0.5
C22_Witness ==
    /\ newton.pc = "rejected"
    /\ newton.NewtonIter = 2
    /\ RLess(newton.Theta, <<99, 100>>)
    /\ newton.Fac # NewtonFac0
    /\ newton.H < newton.H0

\* the Newton loop is left for the abort at NewtonIter = NewtonMaxit - 1
NewtonAborts == newton.pc = "abort"

\* C23, as stated: the abort "still unconverged at NewtonMaxit - 1" never
\* happens, because a pass k >= 1 that gets past both checks (Theta < 0.99,
\* predicted error < NewtonTol) has NewtonRate * NewtonIncrement <= NewtonTol
\* and so ends the loop: no pass k >= 1 is followed by another pass.
C23_PassingPassConverges ==
    /\ ~NewtonAborts
    /\ newton.pc = "loop" => newton.NewtonIter <= 1

\* C23, amended: the abort never happens and every Newton loop ends by
\* convergence or by one of the two rejection breaks.  A pass that gets past
\* both checks is sure to have converged only from k = NewtonMaxit - 2 on,
\* where the predicted error is at least NewtonRate * NewtonIncrement; the
\* passes 1 .. NewtonMaxit - 3 can get past both checks and go on.
C23_NoExhaustion ==
    /\ ~NewtonAborts
    /\ newton.pc \in {"idle", "loop", "break", "rejected", "converged"}
    /\ newton.pc = "loop" => newton.NewtonIter <= NewtonMaxit - 2
    /\ newton.pc # "loop" => newton.NewtonIter <= NewtonMaxit - 2

\* the pass NewtonMaxit - 2 runs and converges
C23_Witness ==
    /\ newton.pc = "converged"
    /\ newton.NewtonIter = NewtonMaxit - 2
    /\ newton.updates = NewtonMaxit - 1

---------------------------------------------------------------------------
(* Properties of the step-size controller *)

\* a loop iteration that rejects the step for its error
ErrRejected == pc = "loop" /\ pc' = "loop" /\ last'.kind = "errreject"

\* a loop iteration that accepts the step
Accepted == pc = "loop" /\ t' # t

\* a loop iteration
Iteration == pc = "loop" /\ LoopCond

\* C24: after a step rejected for its error (Err >= 1) the next H is
\* FacRej * H = 0.1 * H if this is the first step or the attempt before was
\* rejected too, and Fac * H otherwise, with Fac = Err^(-1/4) *
\* (1 + 2 NewtonMaxit) / (NewtonIter + 1 + 2 NewtonMaxit) clamped to
\* [FacMin, FacMax]; either way the next H is at most the rejected H.
C24_StepAfterErrorRejection ==
    [][ErrRejected =>
         LET r == last'.errRt
             k == last'.NewtonIter
             raw == RMul(RDiv(One, r),
                         <<1 + 2 * NewtonMaxit, k + 1 + 2 * NewtonMaxit>>)
             Fac == RMin(FacMax, RMax(FacMin, raw))
         IN  /\ ~RLess(r, One)
             /\ IF FirstStep \/ Reject
                THEN H' = Mul(<<1, 10>>, H)
                ELSE H' = Mul(Fac, H)
             /\ H' <= H]_vars

\* an error rejection right after an accepted step: H shrinks by Fac
C24_Witness ==
    /\ last.kind = "errreject"
    /\ ~FirstStep
    /\ last.dydt
    /\ H = last.Hnew
    /\ 0 < H /\ H < last.H
    /\ H # Mul(FacRej, last.H)

\* C25: after an accepted step Hnew is kept within [Hmin, t_end - t] and, if
\* the attempt followed a rejection, within the H just used.  Then, if
\* t + Hnew / Qmin - t_end >= 0, the next H is exactly t_end - t; otherwise
\* it is Hnew, unless the LU factorization is reused, and then H stays.
C25_StepAfterAccept ==
    [][Accepted =>
         LET hn == last'.Hnew
             rem == t_end - t'
             c == Min(Max(Mul(last'.Fac, H), 0), rem)
         IN  /\ 0 <= hn /\ hn <= rem
             /\ Reject => hn <= H
             /\ hn = IF Reject THEN Min(c, H) ELSE c
             /\ IF (t' - t_end) * Qmin[1] + hn * Qmin[2] >= 0
                THEN H' = rem
                ELSE IF SkipLU' THEN H' = H ELSE H' = hn]_vars

\* C26: every accepted step records Hacc = the H it used and ErrOld =
\* max(1e-2, Err).  The factor FacSafe * (H / Hacc) * (Err^2 / ErrOld)^(-1/4),
\* clamped to [FacMin, FacMax], is combined by min with the classical factor
\* only on accepted steps after the first, so the Hacc and ErrOld it reads
\* are those of the accepted step before: Hacc is not zero, ErrOld >= 1e-2.
C26_GustafssonMemory ==
    /\ [](/\ FirstStep => (Hacc = 0 /\ ErrOldRt = <<0, 1>>)
          /\ ~FirstStep => (Hacc > 0 /\ RLeq(ErrFloorRt, ErrOldRt)))
    /\ [][/\ Accepted =>
               LET r == last'.errRt
                   k == last'.NewtonIter
                   classic == RMin(FacMax, RMax(FacMin,
                                 RMul(RDiv(One, r),
                                      <<1 + 2 * NewtonMaxit,
                                        k + 1 + 2 * NewtonMaxit>>)))
                   gus == RMin(FacMax, RMax(FacMin,
                             RMul(RMul(FacSafe, <<H, Hacc>>),
                                  RDiv(ErrOldRt, RMul(r, r)))))
               IN  /\ RLess(r, One)
                   /\ Hacc' = H
                   /\ ErrOldRt' = RMax(ErrFloorRt, r)
                   /\ last'.Fac = IF FirstStep THEN classic
                                  ELSE RMin(classic, gus)
          /\ ~Accepted => UNCHANGED <<Hacc, ErrOldRt>>]_vars

\* a later accepted step whose Gustafsson factor is the smaller one
C26_Witness ==
    /\ last.kind = "accept"
    /\ last.start = "interp"
    /\ RLess(last.Fac, ClassicFac(last.errRt, last.NewtonIter))
    /\ ErrOldRt = last.errRt
    /\ Hacc = last.H

\* C27: at the start of every Newton attempt and error estimate F0 is
\* f(t, y) at the current t and y: dydt is skipped exactly when the attempt
\* before was rejected (t and y are then as they were), and called by the
\* first attempt and by every attempt that follows an accepted step.
C27_F0Current ==
    [][Iteration =>
         /\ last'.dydt = ~Reject
         /\ last.kind \in {"none", "accept"} => last'.dydt
         /\ last.kind \in RejectKinds => ~last'.dydt
         /\ F0at' = t]_vars

\* an attempt after an accepted step and a rejection: dydt was skipped and
\* F0 is that of the current t
C27_Witness ==
    /\ last.kind \in {"newton_theta", "newton_predicted", "errreject", "accept"}
    /\ ~last.dydt
    /\ last.t > 0
    /\ Hold > 0
    /\ F0at = last.t

\* C28: the attempts before the first accepted step start Newton from
\* Z1 = Z2 = Z3 = 0; every later attempt starts from RK_Interpolate(H, Hold,
\* CONT), which is so called only after an accepted step has written CONT
\* and has set Hold to its own step size, which is not zero.
C28_NewtonStartValues ==
    /\ [](FirstStep => (CONT = -1 /\ Hold = 0))
    /\ [][(Iteration /\ last'.start # "none") =>
             IF FirstStep
             THEN last'.start = "zero"
             ELSE /\ last'.start = "interp"
                  /\ CONT # -1
                  /\ Hold > 0
                  /\ t = CONT + Hold]_vars

\* an attempt after the first accepted step: its starting values are
\* interpolated from the CONT of that step
C28_Witness ==
    /\ last.start = "interp"
    /\ last.kind = "accept"
    /\ last.t > 0
    /\ CONT = last.t
    /\ Hold = last.H

---------------------------------------------------------------------------
(* Properties of RK_Interpolate *)

\* CONT[0] + x * (CONT[1] + x * CONT[2]) at x = 1 + c * (H / Hold)
Horner(c, h, hold, cont) ==
    LET x == RAdd(One, RMul(c, <<h, hold>>))
    IN  RAdd(Int2R(cont[1]),
             RMul(x, RAdd(Int2R(cont[2]), RMul(x, Int2R(cont[3])))))

\* C29: RK_Interpolate returns, for every stage i, Z_i = CONT[0] + x_i *
\* (CONT[1] + x_i * CONT[2]) with x_i = 1 + c_i * (H / Hold): the same x_i
\* in both places.
C29_InterpolateHorner ==
    interp.pc = "done" =>
        \A i \in 1..3 :
            interp.Z[i] = Horner(rkC[i], interp.H, interp.Hold, interp.CONT)

===========================================================================
